---- MODULE Spec2Model ----
(***************************************************************************)
(* The field-tree editor of json-schema-builder/src/App.tsx.               *)
(*                                                                         *)
(* The React state is one Field[] (the root tree).  Every FieldEditor      *)
(* instance works on the array it got as props.fields and hands its result *)
(* to props.setFields, which for a nested editor is the parent's           *)
(* updateChildren and for the root editor is the useState setter.  After   *)
(* the setter the component re-renders: generateSchema runs again and the  *)
(* JSON Output tab is rebuilt.                                             *)
(*                                                                         *)
(* JavaScript arrays and objects are references.  A handler therefore runs *)
(* on a heap of array objects and Field objects; the state between two     *)
(* handlers is the tree read through the root reference (the live graph is *)
(* always a tree: every handler puts fresh arrays on the edited path).     *)
(* Positions are 1-based here; the code's index i is i + 1 in the model.   *)
(***************************************************************************)
EXTENDS Integers, Sequences, FiniteSets, TLC

\* Bound: the number of Field objects in the root tree, dormant ones included.
MaxNodes == 2

\* The strings the name input delivers in the model.
Keys == {"", "a", "b", "__proto__"}

Types == {"String", "Number", "Nested"}

VARIABLES
    fields,     \* useState<Field[]>: the root tree, read through the root reference
    schema,     \* const schema = generateSchema(fields) of the last render
    output,     \* what the JSON Output tab holds after the last render
    preserved,  \* every array that existed before the last handler still reads as it did
    last,       \* which handler ran last, and where
    dormant     \* a node followed from the moment its type left Nested

vars == <<fields, schema, output, preserved, last, dormant>>

----------------------------------------------------------------------------
(* JavaScript values of the derived object *)

ObjectPrototype == [t |-> "prototype"]

Undefined == [t |-> "undefined"]

StringValue(s) == [t |-> "string", s |-> s]

NumberValue(n) == [t |-> "number", n |-> n]

\* {} : no own properties, [[Prototype]] is Object.prototype.
\* own is the list of own enumerable properties in property order.
EmptyObject == [t |-> "object", own |-> <<>>, proto |-> ObjectPrototype]

OwnIndex(obj, key) ==
    LET hits == {i \in 1..Len(obj.own) : obj.own[i][1] = key}
    IN IF hits = {} THEN 0 ELSE CHOOSE i \in hits : TRUE

OwnKeys(obj) == {obj.own[i][1] : i \in 1..Len(obj.own)}

\* schema[key] = value on an object created by {}.  "__proto__" is the
\* accessor of Object.prototype: its setter replaces the prototype when the
\* value is an object and does nothing otherwise; no own property is made.
\* Any other key of Keys is a string key: an existing own property keeps its
\* place and gets the value, a new one goes to the end.
SetProperty(obj, key, value) ==
    IF key = "__proto__"
    THEN IF value.t = "object" THEN [obj EXCEPT !.proto = value] ELSE obj
    ELSE IF OwnIndex(obj, key) # 0
         THEN [obj EXCEPT !.own[OwnIndex(obj, key)] = <<key, value>>]
         ELSE [obj EXCEPT !.own = Append(@, <<key, value>>)]

\* obj[key]: the own property, else the "__proto__" getter, else the
\* prototype chain, which ends at Object.prototype (no property of Keys).
RECURSIVE Get(_, _)
Get(obj, key) ==
    IF obj.t # "object" THEN Undefined
    ELSE IF OwnIndex(obj, key) # 0 THEN obj.own[OwnIndex(obj, key)][2]
    ELSE IF key = "__proto__" THEN obj.proto
    ELSE Get(obj.proto, key)

----------------------------------------------------------------------------
(* generateSchema *)

getDefaultValue(type) ==
    CASE type = "String" -> StringValue("")
      [] type = "Number" -> NumberValue(0)
      [] type = "Nested" -> EmptyObject
      [] OTHER -> StringValue("")

RECURSIVE generateSchema(_)
RECURSIVE forEach(_, _, _)
\* Mutant: the derivation without the test for an empty key.
RECURSIVE forEachNoSkip(_, _, _)
forEachNoSkip(fs, i, acc) ==
    IF i > Len(fs) THEN acc
    ELSE IF fs[i].type = "Nested"
         THEN forEachNoSkip(fs, i + 1, SetProperty(acc, fs[i].key, generateSchema(fs[i].children)))
         ELSE forEachNoSkip(fs, i + 1, SetProperty(acc, fs[i].key, getDefaultValue(fs[i].type)))

generateSchemaNoSkip(fs) == forEachNoSkip(fs, 1, EmptyObject)

\* fields.forEach(({key, type, children}) => ...) from element i on
forEach(fs, i, acc) ==
    IF i > Len(fs) THEN acc
    ELSE IF fs[i].key = "" THEN forEach(fs, i + 1, acc)
    ELSE IF fs[i].type = "Nested"
         THEN forEach(fs, i + 1, SetProperty(acc, fs[i].key, generateSchema(fs[i].children)))
         ELSE forEach(fs, i + 1, SetProperty(acc, fs[i].key, getDefaultValue(fs[i].type)))

generateSchema(fs) == forEach(fs, 1, EmptyObject)

----------------------------------------------------------------------------
(* JSON.stringify(schema, null, 2) *)

RECURSIVE Indent(_)
Indent(depth) == IF depth = 0 THEN "" ELSE "  " \o Indent(depth - 1)

RECURSIVE Stringify(_, _)
RECURSIVE Members(_, _, _)
Members(own, i, depth) ==
    Indent(depth) \o "\"" \o own[i][1] \o "\": " \o Stringify(own[i][2], depth)
    \o (IF i < Len(own) THEN ",\n" \o Members(own, i + 1, depth) ELSE "")

Stringify(v, depth) ==
    CASE v.t = "string" -> "\"" \o v.s \o "\""
      [] v.t = "number" -> ToString(v.n)
      [] v.t = "object" ->
            IF v.own = <<>> THEN "{}"
            ELSE "{\n" \o Members(v.own, 1, depth + 1) \o "\n" \o Indent(depth) \o "}"

----------------------------------------------------------------------------
(* The heap of array objects and Field objects *)

EmptyHeap == [arrays |-> <<>>, nodes |-> <<>>]

RECURSIVE Store(_, _)
RECURSIVE StoreNodes(_, _, _)
StoreNodes(h, tree, ids) ==
    IF tree = <<>> THEN [heap |-> h, ids |-> ids]
    ELSE LET c  == Store(h, Head(tree).children)
             n  == [key |-> Head(tree).key, type |-> Head(tree).type, children |-> c.ref]
             h2 == [c.heap EXCEPT !.nodes = Append(@, n)]
         IN StoreNodes(h2, Tail(tree), Append(ids, Len(h2.nodes)))

\* The object graph of a tree: one array object per sibling list, one Field
\* object per node, nothing shared.
Store(h, tree) ==
    LET s == StoreNodes(h, tree, <<>>)
    IN [heap |-> [s.heap EXCEPT !.arrays = Append(@, s.ids)],
        ref  |-> Len(s.heap.arrays) + 1]

\* The tree an array reference shows.
RECURSIVE Read(_, _)
Read(h, ref) ==
    [i \in 1..Len(h.arrays[ref]) |->
        LET n == h.nodes[h.arrays[ref][i]]
        IN [key |-> n.key, type |-> n.type, children |-> Read(h, n.children)]]

\* Mutant: the spread the other way round, { ...updated, ...node }.
MergeOldWins(node, updated) ==
    [f \in (DOMAIN node) \cup (DOMAIN updated) |->
        IF f \in DOMAIN node THEN node[f] ELSE updated[f]]

\* { ...node, ...updated }
Merge(node, updated) ==
    [f \in (DOMAIN node) \cup (DOMAIN updated) |->
        IF f \in DOMAIN updated THEN updated[f] ELSE node[f]]

\* fields.filter((_, i) => i !== index), from position j on
RECURSIVE Filter(_, _, _)
Filter(s, j, index) ==
    IF j > Len(s) THEN <<>>
    ELSE IF j # index THEN <<s[j]>> \o Filter(s, j + 1, index)
    ELSE Filter(s, j + 1, index)

\* ({ key: "", type: "String", children: [] }): a new Field with a new array
defaultField(h) ==
    LET h1 == [h EXCEPT !.arrays = Append(@, <<>>)]
        h2 == [h1 EXCEPT !.nodes =
                  Append(@, [key |-> "", type |-> "String", children |-> Len(h1.arrays)])]
    IN [heap |-> h2, id |-> Len(h2.nodes)]

(* The handlers of a FieldEditor whose props.fields is the array F.  Each   *)
(* returns the heap it leaves and the reference it passes to setFields.     *)

updateField(h, F, index, updated) ==
    LET newFields == Len(h.arrays) + 1
        h1 == [h EXCEPT !.arrays = Append(@, h.arrays[F])]
        h2 == [h1 EXCEPT !.nodes = Append(@, Merge(h1.nodes[h1.arrays[newFields][index]], updated))]
        h3 == [h2 EXCEPT !.arrays[newFields][index] = Len(h2.nodes)]
    IN [heap |-> h3, ref |-> newFields]

\* Mutant: the new field put first, [defaultField(), ...fields].
addFieldFront(h, F) ==
    LET d == defaultField(h)
    IN [heap |-> [d.heap EXCEPT !.arrays = Append(@, <<d.id>> \o h.arrays[F])],
        ref  |-> Len(d.heap.arrays) + 1]

addField(h, F) ==
    LET d == defaultField(h)
    IN [heap |-> [d.heap EXCEPT !.arrays = Append(@, Append(h.arrays[F], d.id))],
        ref  |-> Len(d.heap.arrays) + 1]

\* Mutant: the filter one position off, i !== index + 1.
removeFieldNext(h, F, index) ==
    [heap |-> [h EXCEPT !.arrays = Append(@, Filter(h.arrays[F], 1, index + 1))],
     ref  |-> Len(h.arrays) + 1]

removeField(h, F, index) ==
    [heap |-> [h EXCEPT !.arrays = Append(@, Filter(h.arrays[F], 1, index))],
     ref  |-> Len(h.arrays) + 1]

\* Mutant: the node rebuilt from the defaults,
\* newFields[index] = { ...defaultField(), children }.
updateChildrenFresh(h, F, index, children) ==
    LET newFields == Len(h.arrays) + 1
        h1 == [h EXCEPT !.arrays = Append(@, h.arrays[F])]
        h2 == [h1 EXCEPT !.nodes =
                  Append(@, [key |-> "", type |-> "String", children |-> children])]
        h3 == [h2 EXCEPT !.arrays[newFields][index] = Len(h2.nodes)]
    IN [heap |-> h3, ref |-> newFields]

\* newFields[index].children = children writes into the Field object that
\* the old array holds too.
updateChildren(h, F, index, children) ==
    LET newFields == Len(h.arrays) + 1
        h1 == [h EXCEPT !.arrays = Append(@, h.arrays[F])]
        h2 == [h1 EXCEPT !.nodes[h1.arrays[newFields][index]].children = children]
    IN [heap |-> h2, ref |-> newFields]

\* props.fields of the FieldEditor at path p: fields for the root editor,
\* field.children of the rendered node for a nested one.
RECURSIVE FieldsProp(_, _, _)
FieldsProp(h, root, p) ==
    IF p = <<>> THEN root
    ELSE FieldsProp(h, h.nodes[h.arrays[root][Head(p)]].children, Tail(p))

\* props.setFields of the FieldEditor at path p, called with ref: the
\* useState setter at the root, (newChildren) => updateChildren(index,
\* newChildren) of the parent editor below it.  h0 and root0 are the heap and
\* the root of the render the closures come from.
RECURSIVE setFields(_, _, _, _, _)
setFields(h0, root0, p, h, ref) ==
    IF p = <<>> THEN [heap |-> h, ref |-> ref]
    ELSE LET parent == SubSeq(p, 1, Len(p) - 1)
             u == updateChildren(h, FieldsProp(h0, root0, parent), p[Len(p)], ref)
         IN setFields(h0, root0, parent, u.heap, u.ref)

\* The paths at which a FieldEditor is rendered: the root, and the children
\* of every rendered node whose type is Nested.
RECURSIVE EditorPaths(_)
EditorPaths(tree) ==
    {<<>>} \cup
    UNION {{<<i>> \o q : q \in EditorPaths(tree[i].children)} :
              i \in {j \in 1..Len(tree) : tree[j].type = "Nested"}}

\* The sibling list at path p of a tree.
RECURSIVE SubtreeAt(_, _)
SubtreeAt(tree, p) ==
    IF p = <<>> THEN tree ELSE SubtreeAt(tree[Head(p)].children, Tail(p))

RECURSIVE Size(_)
Size(tree) ==
    IF tree = <<>> THEN 0
    ELSE 1 + Size(Head(tree).children) + Size(Tail(tree))

----------------------------------------------------------------------------
(* Rendering *)

\* Mutant: the text shown without the hasFields test.
JsonOutputAlways(hasFields, sch) == [kind |-> "json", text |-> Stringify(sch, 0)]

\* The JSON Output tab: the text when hasFields, the placeholder otherwise.
JsonOutput(hasFields, sch) ==
    IF hasFields
    THEN [kind |-> "json", text |-> Stringify(sch, 0)]
    ELSE [kind |-> "placeholder", text |-> "Your JSON schema will appear here"]

\* One render of JsonSchemaBuilder over the state fs.
JsonSchemaBuilder(fs) ==
    LET sch == generateSchema(fs)
        hasFields == Len(fs) > 0
    IN [schema |-> sch, output |-> JsonOutput(hasFields, sch)]

----------------------------------------------------------------------------
(* The handlers as steps *)

\* The heap a render leaves: the graph of the state.
Rendered == Store(EmptyHeap, fields)

\* A handler of the editor at p produced r; setFields carries it to the root,
\* the state is replaced and the component renders again.
Commit(h0, root0, p, r) ==
    LET s == setFields(h0, root0, p, r.heap, r.ref)
        t == Read(s.heap, s.ref)
    IN /\ fields' = t
       /\ schema' = JsonSchemaBuilder(t).schema
       /\ output' = JsonSchemaBuilder(t).output
       /\ preserved' = \A a \in 1..Len(h0.arrays) : Read(s.heap, a) = Read(h0, a)

AddFieldAt(p) ==
    /\ Size(fields) < MaxNodes
    /\ LET g == Rendered
       IN Commit(g.heap, g.ref, p, addField(g.heap, FieldsProp(g.heap, g.ref, p)))

RemoveFieldAt(p, i) ==
    LET g == Rendered
    IN Commit(g.heap, g.ref, p, removeField(g.heap, FieldsProp(g.heap, g.ref, p), i))

\* onChange of the name input
RenameAt(p, i, k) ==
    /\ k # SubtreeAt(fields, p)[i].key
    /\ LET g == Rendered
       IN Commit(g.heap, g.ref, p,
                 updateField(g.heap, FieldsProp(g.heap, g.ref, p), i, [key |-> k]))

\* Mutant: a change of type that starts the node over with no children,
\* updateField(index, { type, children: [] }).
RetypeClearAt(p, i, ty) ==
    /\ ty # SubtreeAt(fields, p)[i].type
    /\ LET g == Rendered
           h1 == [g.heap EXCEPT !.arrays = Append(@, <<>>)]
       IN Commit(g.heap, g.ref, p,
                 updateField(h1, FieldsProp(g.heap, g.ref, p), i,
                             [type |-> ty, children |-> Len(h1.arrays)]))

\* onChange of the type select
RetypeAt(p, i, ty) ==
    /\ ty # SubtreeAt(fields, p)[i].type
    /\ LET g == Rendered
       IN Commit(g.heap, g.ref, p,
                 updateField(g.heap, FieldsProp(g.heap, g.ref, p), i, [type |-> ty]))

----------------------------------------------------------------------------
(* Observation *)

\* last names the handler of the step just taken: its editor's path and the
\* position it was called with (0 for addField).
Done(op, p, i) == last' = [op |-> op, path |-> p, index |-> i]

NoDormant == [phase |-> "none"]

\* The address (path of the editor, then position) of a followed node after
\* removeField(i) in the editor at p; <<>> when the node went with it.
AfterRemove(addr, p, i) ==
    IF Len(p) < Len(addr) /\ SubSeq(addr, 1, Len(p)) = p
    THEN LET k == addr[Len(p) + 1]
         IN IF i = k THEN <<>>
            ELSE IF i < k THEN [addr EXCEPT ![Len(p) + 1] = k - 1]
            ELSE addr
    ELSE addr

\* The followed node after a step that is not its own return to Nested.
Follow(op, p, i, ty) ==
    IF dormant.phase # "dormant" THEN NoDormant
    ELSE IF op = "remove"
         THEN IF AfterRemove(dormant.addr, p, i) = <<>> THEN NoDormant
              ELSE [dormant EXCEPT !.addr = AfterRemove(dormant.addr, p, i), !.between = TRUE]
    ELSE IF op = "type" /\ p \o <<i>> = dormant.addr /\ ty = "Nested"
         THEN [dormant EXCEPT !.phase = "restored"]
    ELSE [dormant EXCEPT !.between = TRUE]

\* A node whose type leaves Nested may become the followed one, with the
\* children it has at that moment.
Track(op, p, i, ty) ==
    IF op = "type" /\ SubtreeAt(fields, p)[i].type = "Nested"
    THEN dormant' \in
            {[phase |-> "dormant", addr |-> p \o <<i>>,
              children |-> SubtreeAt(fields, p)[i].children, between |-> FALSE]}
            \cup (IF dormant.phase = "dormant" THEN {Follow(op, p, i, ty)} ELSE {})
    ELSE dormant' = Follow(op, p, i, ty)

----------------------------------------------------------------------------
(* The editor *)

Init ==
    /\ fields = <<>>
    /\ schema = JsonSchemaBuilder(<<>>).schema
    /\ output = JsonSchemaBuilder(<<>>).output
    /\ preserved = TRUE
    /\ last = [op |-> "init", path |-> <<>>, index |-> 0]
    /\ dormant = NoDormant

ClickAddField ==
    \E p \in EditorPaths(fields) :
        AddFieldAt(p) /\ Done("add", p, 0) /\ UNCHANGED dormant

ClickRemove ==
    \E p \in EditorPaths(fields) : \E i \in 1..Len(SubtreeAt(fields, p)) :
        RemoveFieldAt(p, i) /\ Done("remove", p, i) /\ UNCHANGED dormant

ChangeKey ==
    \E p \in EditorPaths(fields) : \E i \in 1..Len(SubtreeAt(fields, p)) : \E k \in Keys :
        RenameAt(p, i, k) /\ Done("key", p, i) /\ UNCHANGED dormant

ChangeType ==
    \E p \in EditorPaths(fields) : \E i \in 1..Len(SubtreeAt(fields, p)) : \E ty \in Types :
        RetypeAt(p, i, ty) /\ Done("type", p, i) /\ UNCHANGED dormant

Next == ClickAddField \/ ClickRemove \/ ChangeKey \/ ChangeType

Spec == Init /\ [][Next]_vars

(* The same editor, following one node from the step that takes its type   *)
(* away from Nested.                                                       *)

AddFieldFollowed ==
    \E p \in EditorPaths(fields) :
        AddFieldAt(p) /\ Track("add", p, 0, "") /\ UNCHANGED last

RemoveFollowed ==
    \E p \in EditorPaths(fields) : \E i \in 1..Len(SubtreeAt(fields, p)) :
        RemoveFieldAt(p, i) /\ Track("remove", p, i, "") /\ UNCHANGED last

KeyFollowed ==
    \E p \in EditorPaths(fields) : \E i \in 1..Len(SubtreeAt(fields, p)) : \E k \in Keys :
        RenameAt(p, i, k) /\ Track("key", p, i, "") /\ UNCHANGED last

TypeFollowed ==
    \E p \in EditorPaths(fields) : \E i \in 1..Len(SubtreeAt(fields, p)) : \E ty \in Types :
        RetypeAt(p, i, ty) /\ Track("type", p, i, ty) /\ UNCHANGED last

NextDormant == AddFieldFollowed \/ RemoveFollowed \/ KeyFollowed \/ TypeFollowed

SpecDormant == Init /\ [][NextDormant]_vars

----------------------------------------------------------------------------
(* Properties *)

TopLevelKeys(t) == {t[i].key : i \in 1..Len(t)} \ {""}

LastWithKey(t, i) == \A j \in (i + 1)..Len(t) : t[j].key # t[i].key

NodeAt(t, addr) == SubtreeAt(t, SubSeq(addr, 1, Len(addr) - 1))[addr[Len(addr)]]

\* C1: the key set of generateSchema(t) is exactly the set of non-empty keys
\* of the top-level nodes of t (the empty mapping when there are none).
KeySetIsTopLevelKeys == OwnKeys(schema) = TopLevelKeys(fields)

\* t read against its derived object s: every non-empty top-level key holds
\* the value its last node gives, at every depth.
RECURSIVE LastWins(_, _)
LastWins(t, s) ==
    \A i \in 1..Len(t) :
        (t[i].key # "" /\ LastWithKey(t, i)) =>
            CASE t[i].type = "String" -> Get(s, t[i].key) = StringValue("")
              [] t[i].type = "Number" -> Get(s, t[i].key) = NumberValue(0)
              [] t[i].type = "Nested" ->
                    /\ Get(s, t[i].key) = generateSchema(t[i].children)
                    /\ LastWins(t[i].children, generateSchema(t[i].children))

\* C2: for every non-empty top-level key k, generateSchema(t)[k] is the value
\* of the last top-level node with key k: "" for String, 0 for Number, the
\* derivation of its children for Nested, recursively.
ValueIsLastNodesValue == LastWins(fields, schema)

\* C3: no edit operation changes what a tree held before the operation
\* shows, at any nesting level.
NoInPlaceMutation == preserved

\* C4: addField(t) is t followed by one node with key "", type String and no
\* children, and derives to the same object as t.
AddFieldAppendsDefault ==
    [][last'.op = "add" =>
         LET t == SubtreeAt(fields, last'.path)
             r == SubtreeAt(fields', last'.path)
         IN /\ r = Append(t, [key |-> "", type |-> "String", children |-> <<>>])
            /\ generateSchema(r) = generateSchema(t)]_vars

AddFieldActed ==
    /\ last.op = "add"
    /\ Len(fields) = 2
    /\ fields[1].key = "a"
    /\ fields[2] = [key |-> "", type |-> "String", children |-> <<>>]

UpdateFieldOn(t, i, u) ==
    LET g == Store(EmptyHeap, t)
        c == IF "children" \in DOMAIN u
             THEN Store(g.heap, u.children)
             ELSE [heap |-> g.heap, ref |-> 0]
        updated == [f \in DOMAIN u |-> IF f = "children" THEN c.ref ELSE u[f]]
        r == updateField(c.heap, g.ref, i, updated)
    IN Read(r.heap, r.ref)

PartialValues ==
    [key |-> {"", "b"}, type |-> {"Number", "Nested"},
     children |-> {<<>>, << [key |-> "a", type |-> "String", children |-> <<>>] >>}]

Partials ==
    UNION {{[f \in D |-> full[f]] :
               full \in [key : PartialValues.key, type : PartialValues.type,
                         children : PartialValues.children]} :
           D \in SUBSET {"key", "type", "children"}}

\* C6: updateField(t, i, p) has the length of t, its node at i takes each of
\* key, type and children from p when p gives it and from the old node
\* otherwise, and every other node is unchanged at its position.
UpdateFieldMergesAtIndex ==
    \A i \in 1..Len(fields) : \A u \in Partials :
        LET r == UpdateFieldOn(fields, i, u)
        IN /\ Len(r) = Len(fields)
           /\ \A j \in 1..Len(fields) : j # i => r[j] = fields[j]
           /\ \A f \in {"key", "type", "children"} :
                 r[i][f] = IF f \in DOMAIN u THEN u[f] ELSE fields[i][f]

UpdateFieldActed ==
    /\ last.op = "type"
    /\ last.index = 2
    /\ Len(fields) = 2
    /\ fields[2].type = "Number"
    /\ fields[2].key = "a"

\* old and new differ at most in the children along p and in the list at p.
RECURSIVE OnlyPathChanged(_, _, _)
OnlyPathChanged(old, new, p) ==
    \/ p = <<>>
    \/ /\ Len(new) = Len(old)
       /\ \A j \in 1..Len(old) :
             IF j = Head(p)
             THEN /\ new[j].key = old[j].key
                  /\ new[j].type = old[j].type
                  /\ OnlyPathChanged(old[j].children, new[j].children, Tail(p))
             ELSE new[j] = old[j]

DormantChildrenRestored ==
    dormant.phase # "none" =>
        /\ NodeAt(fields, dormant.addr).children = dormant.children
        /\ dormant.phase = "restored" =>
              /\ NodeAt(fields, dormant.addr).type = "Nested"
              /\ generateSchema(NodeAt(fields, dormant.addr).children)
                    = generateSchema(dormant.children)

DormantRestoredActed ==
    /\ dormant.phase = "restored"
    /\ dormant.between
    /\ dormant.children # <<>>
    /\ dormant.children[1].key = "a"
    /\ NodeAt(fields, dormant.addr).key = "b"

\* C9 as stated: after every sequence of editor actions the output view shows
\* the derivation of the current root tree as JSON text, the empty root
\* included.
OutputIsAlwaysJsonText ==
    last.op # "init" =>
        output = [kind |-> "json", text |-> Stringify(generateSchema(fields), 0)]

\* C9 amended: the output view shows the derivation of the current root tree
\* as JSON text whenever the root tree has a field, and the placeholder
\* whenever it has none.
OutputIsJsonTextOrPlaceholder ==
    IF Len(fields) > 0
    THEN output = [kind |-> "json", text |-> Stringify(generateSchema(fields), 0)]
    ELSE output.kind = "placeholder"

OutputAfterNestedEdit ==
    /\ last.path = <<1>>
    /\ output.kind = "json"
    /\ output.text = "{\n  \"a\": {\n    \"b\": 0\n  }\n}"

\* A tree without the data the derivation is said to ignore: the type and
\* children of unnamed nodes and the children of nodes that are not Nested.
RECURSIVE Scrub(_)
Scrub(t) ==
    [i \in 1..Len(t) |->
        IF t[i].key = "" THEN [key |-> "", type |-> "String", children |-> <<>>]
        ELSE IF t[i].type # "Nested" THEN [t[i] EXCEPT !.children = <<>>]
        ELSE [t[i] EXCEPT !.children = Scrub(@)]]

\* C10: trees that differ only in ignored data derive to equal objects: a
\* tree derives to what its scrubbed form derives to.
DeriveIgnoresDormantData == schema = generateSchema(Scrub(fields))

IgnoredDataPresent ==
    /\ Len(fields) = 1
    /\ fields[1].key = ""
    /\ fields[1].type = "Nested"
    /\ Len(fields[1].children) = 1
    /\ fields[1].children[1].key = "a"

====
